---- MODULE Spec2Model ----
(***************************************************************************)
(* State-machine model of AMAZE.PY, a discord.py moderation bot.           *)
(*                                                                         *)
(* The bot runs on one asyncio event loop: a handler runs without          *)
(* interruption from one `await` of a platform call to the next, and other *)
(* handlers may run while it is suspended.  One action of the model is one *)
(* such segment: it applies the outcome of the awaited call (the call      *)
(* returns or raises) and then runs the handler's code up to the next      *)
(* awaited call.  Every awaited platform call may raise; which exception   *)
(* it raises is an input of the step.  An exception that no `except`       *)
(* clause of the handler catches ends the handler (pc = "failed").         *)
(***************************************************************************)
EXTENDS Integers, Sequences, FiniteSets, Bags, TLC

\* ------------------------------------------------------------ configuration
OWNER_ID == 1
BOT_ID == 2
TIMEOUT_DURATION == 600
PREVIEW_LEN == 100

\* Other accounts (neither the configured owner nor the bot account).
Members == {3}
Principals == {OWNER_ID, BOT_ID} \cup Members
Humans == Principals \ {BOT_ID}
\* No principal: an audit-log query that returned no entry, an unused field.
NoOne == 0

\* Number of events (handler invocations) in one behaviour.
MaxTasks == 2

VARIABLES
    whitelisted,  \* the allow-list (module global `whitelisted`)
    tasks,        \* the handler invocations so far: a bag of task records
    audit_logs,   \* platform: most recent audit-log actor per action type
    banned,       \* platform: banned accounts
    timeouts      \* platform: timeout in seconds per account (0 = none)

vars == <<whitelisted, tasks, audit_logs, banned, timeouts>>

\* ------------------------------------------------------------ text helpers
UpperCase == "ABCDEFGHIJKLMNOPQRSTUVWXYZ"
LowerCase == "abcdefghijklmnopqrstuvwxyz"

CharAt(s, i) == SubSeq(s, i, i)

\* str.lower() on one character.
LowerChar(c) ==
    IF \E k \in 1..Len(UpperCase) : CharAt(UpperCase, k) = c
    THEN CharAt(LowerCase, CHOOSE k \in 1..Len(UpperCase) : CharAt(UpperCase, k) = c)
    ELSE c

RECURSIVE lower(_)
lower(s) ==
    IF Len(s) = 0 THEN ""
    ELSE IF Len(s) = 1 THEN LowerChar(s)
    ELSE lower(SubSeq(s, 1, Len(s) \div 2)) \o lower(SubSeq(s, Len(s) \div 2 + 1, Len(s)))

\* `sub in s`
Contains(s, sub) ==
    \E i \in 1..(Len(s) - Len(sub) + 1) : SubSeq(s, i, i + Len(sub) - 1) = sub

\* s.startswith(p)
HasPrefix(s, p) == Len(s) >= Len(p) /\ SubSeq(s, 1, Len(p)) = p

\* s[:n]
Take(s, n) == SubSeq(s, 1, IF Len(s) < n THEN Len(s) ELSE n)

\* The regex token `p\S+` matched at position i: the literal p followed by at
\* least one character that is not whitespace.
TokenAt(s, i, p) ==
    /\ i + Len(p) <= Len(s)
    /\ SubSeq(s, i, i + Len(p) - 1) = p
    /\ CharAt(s, i + Len(p)) # " "

\* LINK_PATTERN.search(s) is not None, for r"(https?://\S+|www\.\S+)".
LINK_PATTERN(s) ==
    \E i \in 1..Len(s) :
        TokenAt(s, i, "http://") \/ TokenAt(s, i, "https://") \/ TokenAt(s, i, "www.")

\* any(mention in content.lower() for mention in ["@everyone", "@here"])
MASS_MENTION(s) == Contains(lower(s), "@everyone") \/ Contains(lower(s), "@here")

\* ------------------------------------------------------------ messages
LongTail ==
    "aaaaaaaaaaaaaaaaaaaaaaaaaaaaaaaaaaaaaaaaaaaaaaaaaaaaaaaaaaaaaaaaaaaaaaaaaaaaaaaaaaaaaaaaaaaaaaaaaaaaaaaaaa.example.com"

IdText == <<"1", "2", "3">>
Mention(p) == "<@" \o IdText[p] \o ">"

\* Message bodies the members send.
TextBodies ==
    { "hello",
      "check this out www.example.com",
      "hi @Everyone",
      "@here https://" \o LongTail }

CommandBodies ==
    { "!whitelist " \o Mention(3),
      "!unwhitelist " \o Mention(3),
      "!unwhitelist " \o Mention(OWNER_ID),
      "!whitelist",
      "!ping" }

Bodies == TextBodies \cup CommandBodies

\* What the bot account itself posts (on_message never reads it).
BotBodies == {"check this out www.example.com"}

\* The bodies each rule's test accepts (the tests, evaluated once per body).
LinkBodies == {content \in Bodies : LINK_PATTERN(content)}
MentionBodies == {content \in Bodies : MASS_MENTION(content)}

\* ------------------------------------------------------------ tasks
\* One call of a platform primitive (or of log_action), with its outcome.
Call(op, tag, who, tgt, secs, text, res) ==
    [op |-> op, tag |-> tag, who |-> who, tgt |-> tgt, secs |-> secs,
     text |-> text, res |-> res]

NewTask(ev, pc, actor, target, content) ==
    [ev |-> ev, pc |-> pc, actor |-> actor, target |-> target, content |-> content,
     entry |-> NoOne, entry_seen |-> "", gone |-> FALSE,
     link_seen |-> "", mention_seen |-> "",
     forwarded |-> FALSE, trace |-> <<>>, err |-> ""]

\* The handler goes on to the segment `pc` after the call returned.
Goto(t, pc, call) == [t EXCEPT !.pc = pc, !.trace = Append(@, call)]

\* The call raised and nothing catches it: the handler ends there.
Raise(t, call) ==
    [t EXCEPT !.pc = "failed", !.err = call.res, !.trace = Append(@, call)]

Finished(t) == t.pc \in {"done", "failed"}

\* The handler invocations, each once.
Tasks == BagToSet(tasks)

\* A new event is dispatched to its handler.
Dispatch(bag, t) == bag (+) SetToBag({t})

\* Task t takes a step and becomes t2.
Replace(bag, t, t2) == (bag (-) SetToBag({t})) (+) SetToBag({t2})

\* The bound on the events of one behaviour.
Room(bag) == BagCardinality(bag) < MaxTasks

\* ------------------------------------------------------------ platform outcomes
\* message.delete(), channel.delete(), role.delete()
DeleteOutcomes(gone) == IF gone THEN {"NotFound"} ELSE {"ok", "Forbidden"}
\* user.send(): discord.Forbidden (DMs closed) or another HTTPException
DMOutcomes == {"ok", "Forbidden", "HTTPException"}
\* ctx.send(), log_channel.send()
SendOutcomes == {"ok", "Forbidden"}
\* member.timeout()
TimeoutOutcomes == {"ok", "Forbidden"}
\* member.ban(), guild.ban(): the platform refuses a ban of the bot's own account
BanOutcomes(target) == IF target = BOT_ID THEN {"Forbidden"} ELSE {"ok", "Forbidden"}
\* guild.audit_logs()
AuditOutcomes == {"ok", "Forbidden"}
\* guild.get_channel(LOG_CHANNEL_ID): None, or the channel and what its send does
LogChannels == {"None"} \cup SendOutcomes

\* ------------------------------------------------------------ helper functions
\* send_dm: `except discord.Forbidden` swallows a refused DM; any other exception
\* of user.send() leaves send_dm and the handler that awaits it.
send_dm(t, pc, tag, r) ==
    LET call == Call("dm", tag, t.actor, NoOne, 0, "", r)
    IN  IF r \in {"ok", "Forbidden"} THEN Goto(t, pc, call) ELSE Raise(t, call)

\* Mutant of log_action: the `if log_channel:` test is missing, so that a
\* channel that is None fails at its send.
log_action_no_channel_test(t, pc, entry, chan) ==
    LET call == [entry EXCEPT !.res = chan]
    IN  IF chan = "ok" THEN Goto(t, pc, call) ELSE Raise(t, call)

\* log_action: sends nothing when get_channel() returns None; an exception of
\* log_channel.send() is not caught.  `entry` is the audit entry to write.
log_action(t, pc, entry, chan) ==
    LET call == [entry EXCEPT !.res = chan]
    IN  IF chan \in {"None", "ok"} THEN Goto(t, pc, call) ELSE Raise(t, call)

LogEntry(tag, who, tgt, text) == Call("log", tag, who, tgt, 0, text, "")

\* ------------------------------------------------------------ on_message
\* line 69: the link rule fires
LinkRule(content, author, wl) == content \in LinkBodies /\ author \notin wl

\* line 78: the mass-mention rule fires
MentionRule(content, author, wl) == content \in MentionBodies /\ author \notin wl

\* line 92: bot.process_commands(message) returns at once, without an await,
\* for a message that does not start with the command prefix.
AfterMention(content) == IF HasPrefix(content, "!") THEN "process_commands" ELSE "done"

\* Where on_message goes once the link block is over: line 78, then line 92.
AfterLink(content, author, wl) ==
    IF MentionRule(content, author, wl) THEN "mention_delete" ELSE AfterMention(content)

\* What a rule's test read of the allow-list: nothing when the body does not
\* match (`and` does not evaluate its right operand), else the author's
\* membership at that moment.
Seen(bodies, content, author, wl) ==
    IF content \notin bodies THEN ""
    ELSE IF author \in wl THEN "listed"
    ELSE "unlisted"

\* The message is handed to bot.process_commands (line 92 is reached).
Forward(t) == [t EXCEPT !.forwarded = (t.pc \in {"process_commands", "done"})]

\* line 78 and, when the mention rule does not fire, line 92.
Line78(t, wl) ==
    Forward([t EXCEPT !.pc = AfterLink(t.content, t.actor, wl),
                      !.mention_seen = Seen(MentionBodies, t.content, t.actor, wl)])

\* lines 69-92: the handler's first segment, for an author that is no bot.
FirstSegment(t, wl) ==
    LET read == [t EXCEPT !.link_seen = Seen(LinkBodies, t.content, t.actor, wl)]
    IN  IF LinkRule(t.content, t.actor, wl)
        THEN [read EXCEPT !.pc = "link_delete"]
        ELSE Line78(read, wl)

\* lines 63-66: a message arrives; a bot's message is not looked at.
on_message(author, content) ==
    /\ Room(tasks)
    /\ author \notin banned
    /\ author = BOT_ID => content \in BotBodies
    /\ tasks' = Dispatch(tasks,
           IF author = BOT_ID
           THEN NewTask("message", "done", author, NoOne, content)
           ELSE FirstSegment(NewTask("message", "start", author, NoOne, content),
                             whitelisted))
    /\ UNCHANGED <<whitelisted, audit_logs, banned, timeouts>>

\* Task t becomes t2, everything else as it was.
Only(t, t2) ==
    /\ tasks' = Replace(tasks, t, t2)
    /\ UNCHANGED <<whitelisted, audit_logs, banned, timeouts>>

\* message.delete(), channel.delete() or role.delete() of task t's object.
DeleteObject(t, pc, tag, r) ==
    LET call == Call("delete", tag, NoOne, NoOne, 0, "", r)
    IN  IF r = "ok" THEN [Goto(t, pc, call) EXCEPT !.gone = TRUE] ELSE Raise(t, call)

\* line 70
link_delete(t) ==
    /\ t.pc = "link_delete"
    /\ \E r \in DeleteOutcomes(t.gone) :
           Only(t, DeleteObject(t, "link_dm", "link", r))

\* line 71
link_dm(t) ==
    /\ t.pc = "link_dm"
    /\ \E r \in DMOutcomes : Only(t, send_dm(t, "link_log", "link", r))

\* lines 72-75, then the condition of line 78
link_log(t) ==
    /\ t.pc = "link_log"
    /\ \E chan \in LogChannels :
           LET logged == log_action(t, "line78",
                             LogEntry("link", t.actor, NoOne,
                                      Take(t.content, PREVIEW_LEN) \o "..."), chan)
           IN  Only(t, IF logged.pc = "failed" THEN logged
                       ELSE Line78(logged, whitelisted))

\* Mutant of mention_delete: the handler goes from the delete to the DM,
\* leaving the timeout out.
mention_delete_then_dm(t) ==
    /\ t.pc = "mention_delete"
    /\ \E r \in DeleteOutcomes(t.gone) :
           Only(t, DeleteObject(t, "mention_dm", "mention", r))

\* line 79
mention_delete(t) ==
    /\ t.pc = "mention_delete"
    /\ \E r \in DeleteOutcomes(t.gone) :
           Only(t, DeleteObject(t, "mention_timeout", "mention", r))

\* lines 80-83
mention_timeout(t) ==
    /\ t.pc = "mention_timeout"
    /\ \E r \in TimeoutOutcomes :
           LET call == Call("timeout", "mention", t.actor, NoOne, TIMEOUT_DURATION, "", r)
           IN  /\ tasks' = Replace(tasks, t,
                      IF r = "ok" THEN Goto(t, "mention_dm", call) ELSE Raise(t, call))
               /\ timeouts' = IF r = "ok"
                              THEN [timeouts EXCEPT ![t.actor] = TIMEOUT_DURATION]
                              ELSE timeouts
    /\ UNCHANGED <<whitelisted, audit_logs, banned>>

\* lines 84-87
mention_dm(t) ==
    /\ t.pc = "mention_dm"
    /\ \E r \in DMOutcomes : Only(t, send_dm(t, "mention_log", "mention", r))

\* lines 88-90, then line 92
mention_log(t) ==
    /\ t.pc = "mention_log"
    /\ \E chan \in LogChannels :
           Only(t, Forward(log_action(t, AfterMention(t.content),
                        LogEntry("mention", t.actor, NoOne, ""), chan)))

\* ------------------------------------------------------------ commands
\* Position of the first blank of s, Len(s) + 1 when it has none.
FirstSpace(s) ==
    IF \E i \in 1..Len(s) : CharAt(s, i) = " "
    THEN CHOOSE i \in 1..Len(s) :
             CharAt(s, i) = " " /\ \A j \in 1..(i - 1) : CharAt(s, j) # " "
    ELSE Len(s) + 1

\* command_prefix="!": the word after the prefix, and what follows it.
invoked_with(content) == SubSeq(content, 2, FirstSpace(content) - 1)
argument(content) == SubSeq(content, FirstSpace(content) + 1, Len(content))

\* @bot.command(): the commands the module registers.
COMMANDS == {"whitelist", "unwhitelist"}

\* The `member: discord.Member` converter: the guild member the argument
\* mentions, NoOne when it mentions none.
MemberOf(arg, guild) ==
    IF \E p \in guild : Mention(p) = arg
    THEN CHOOSE p \in guild : Mention(p) = arg
    ELSE NoOne

\* Mutant of is_owner: the check lets every invoker through.
is_owner_anyone(user) == TRUE

\* @commands.is_owner(): the bot is built without owner_id, so the check
\* accepts the owner the platform records for the application; the
\* deployment modelled is the one whose OWNER_ID names that account.
is_owner(user) == user = OWNER_ID

\* line 132: whitelisted.add(member.id)
add(wl, member) == wl \cup {member}

\* Mutant of discard: the member stays in the set.
discard_nothing(wl, member) == wl

\* line 142: whitelisted.discard(member.id)
discard(wl, member) == wl \ {member}

\* Mutant of CommandError: the command's checks are not run.
CommandError_no_checks(t, guild) ==
    IF invoked_with(t.content) \notin COMMANDS THEN "CommandNotFound"
    ELSE IF argument(t.content) = "" THEN "MissingRequiredArgument"
    ELSE IF MemberOf(argument(t.content), guild) = NoOne THEN "MemberNotFound"
    ELSE ""

\* What invoking the message's command comes to, before the callback runs:
\* the error dispatched to on_command_error, or "" when the callback runs.
CommandError(t, guild) ==
    IF invoked_with(t.content) \notin COMMANDS THEN "CommandNotFound"
    ELSE IF ~is_owner(t.actor) THEN "NotOwner"
    ELSE IF argument(t.content) = "" THEN "MissingRequiredArgument"
    ELSE IF MemberOf(argument(t.content), guild) = NoOne THEN "MemberNotFound"
    ELSE ""

\* Mutant of ErrorBranch: the NotOwner branch is missing, so that a rejected
\* invoker falls into the `else` branch.
ErrorBranch_no_owner_branch(error) ==
    IF error = "CommandNotFound" THEN "done"
    ELSE IF error = "MissingRequiredArgument" THEN "error_missing"
    ELSE "error_log"

\* on_command_error (lines 150-161): where the handler goes for an error.
ErrorBranch(error) ==
    IF error = "CommandNotFound" THEN "done"
    ELSE IF error = "MissingRequiredArgument" THEN "error_missing"
    ELSE IF error = "NotOwner" THEN "error_owner"
    ELSE "error_log"

\* An exception inside a command callback reaches on_command_error wrapped
\* in CommandInvokeError.
InCommand(t) ==
    IF t.pc = "failed"
    THEN [t EXCEPT !.pc = ErrorBranch("CommandInvokeError"), !.err = "CommandInvokeError"]
    ELSE t

\* line 92: bot.process_commands(message), up to the callback's first await
\* (lines 132 and 142 run in this segment).
process_commands(t) ==
    /\ t.pc = "process_commands"
    /\ LET guild == Principals \ banned
           error == CommandError(t, guild)
           member == MemberOf(argument(t.content), guild)
           name == invoked_with(t.content)
       IN  IF error # ""
           THEN /\ tasks' = Replace(tasks, t,
                       [t EXCEPT !.pc = ErrorBranch(error), !.err = error])
                /\ UNCHANGED whitelisted
           ELSE /\ tasks' = Replace(tasks, t,
                       [t EXCEPT !.pc = "command_ack", !.target = member])
                /\ whitelisted' = IF name = "whitelist"
                                  THEN add(whitelisted, member)
                                  ELSE discard(whitelisted, member)
    /\ UNCHANGED <<audit_logs, banned, timeouts>>

\* lines 133 and 143: ctx.send(...)
command_ack(t) ==
    /\ t.pc = "command_ack"
    /\ \E r \in SendOutcomes :
           LET call == Call("send", invoked_with(t.content), t.actor, t.target, 0, "", r)
           IN  Only(t, InCommand(IF r = "ok" THEN Goto(t, "command_log", call)
                                 ELSE Raise(t, call)))

\* lines 134-136 and 144-146
command_log(t) ==
    /\ t.pc = "command_log"
    /\ \E chan \in LogChannels :
           Only(t, InCommand(log_action(t, "done",
                        LogEntry(invoked_with(t.content), t.actor, t.target, ""), chan)))

\* line 156
error_owner(t) ==
    /\ t.pc = "error_owner"
    /\ \E r \in SendOutcomes :
           LET call == Call("send", "owner_only", t.actor, NoOne, 0, "", r)
           IN  Only(t, IF r = "ok" THEN Goto(t, "done", call) ELSE Raise(t, call))

\* line 154
error_missing(t) ==
    /\ t.pc = "error_missing"
    /\ \E r \in SendOutcomes :
           LET call == Call("send", "missing_arguments", t.actor, NoOne, 0, "", r)
           IN  Only(t, IF r = "ok" THEN Goto(t, "done", call) ELSE Raise(t, call))

\* lines 158-161: the error is logged, then raised again
error_log(t) ==
    /\ t.pc = "error_log"
    /\ \E chan \in LogChannels :
           LET logged == log_action(t, "failed",
                             LogEntry("error", t.actor, NoOne,
                                      invoked_with(t.content) \o ": " \o t.err), chan)
           IN  Only(t, logged)

\* ------------------------------------------------------------ security events
StructuralEvents == {"channel", "role", "ban"}

\* The platform records `actor` as the latest audit-log entry of action type
\* ev, unless the entry is not there (yet) when the handler asks (~logged).
Record(ev, actor, logged) ==
    IF logged THEN [audit_logs EXCEPT ![ev] = actor] ELSE audit_logs

\* A member creates a channel: the event carries the channel, not the member.
on_guild_channel_create(actor, logged) ==
    /\ Room(tasks)
    /\ actor \notin banned
    /\ tasks' = Dispatch(tasks, NewTask("channel", "audit_logs", actor, NoOne, ""))
    /\ audit_logs' = Record("channel", actor, logged)
    /\ UNCHANGED <<whitelisted, banned, timeouts>>

\* A member creates a role.
on_guild_role_create(actor, logged) ==
    /\ Room(tasks)
    /\ actor \notin banned
    /\ tasks' = Dispatch(tasks, NewTask("role", "audit_logs", actor, NoOne, ""))
    /\ audit_logs' = Record("role", actor, logged)
    /\ UNCHANGED <<whitelisted, banned, timeouts>>

\* A member bans `user`.
on_member_ban(actor, user, logged) ==
    /\ Room(tasks)
    /\ actor \notin banned
    /\ user \notin banned \cup {actor}
    /\ tasks' = Dispatch(tasks, NewTask("ban", "audit_logs", actor, user, ""))
    /\ audit_logs' = Record("ban", actor, logged)
    /\ banned' = banned \cup {user}
    /\ UNCHANGED <<whitelisted, timeouts>>

\* Mutant of Verdict: an empty result is not told from an entry whose user
\* is outside the allow-list.
Verdict_no_empty_case(entry, wl) ==
    IF entry \in wl THEN "allow" ELSE "revert_and_ban"

\* lines 98-99, 109-110, 120-121: what the handler decides for the entry the
\* audit-log query returned.
Verdict(entry, wl) ==
    IF entry = NoOne THEN "none"
    ELSE IF entry \in wl THEN "allow"
    ELSE "revert_and_ban"

\* `async for entry in guild.audit_logs(action=..., limit=1)` and the test
\* of the entry's user.
resolve_actor(t) ==
    /\ t.pc = "audit_logs"
    /\ \E r \in AuditOutcomes :
           LET entry == audit_logs[t.ev]
               verdict == Verdict(entry, whitelisted)
           IN  Only(t, IF r # "ok"
                       THEN Raise(t, Call("audit_logs", t.ev, NoOne, NoOne, 0, "", r))
                       ELSE [t EXCEPT !.entry = entry,
                                      !.entry_seen = IF entry = NoOne THEN ""
                                                     ELSE IF entry \in whitelisted THEN "listed"
                                                     ELSE "unlisted",
                                      !.pc = IF verdict # "revert_and_ban" THEN "done"
                                             ELSE IF t.ev = "ban" THEN "ban"
                                             ELSE "revert"])

\* lines 100 and 111: channel.delete(), role.delete()
revert(t) ==
    /\ t.pc = "revert"
    /\ \E r \in DeleteOutcomes(t.gone) :
           Only(t, DeleteObject(t, "ban", t.ev, r))

\* lines 101, 112 and 122: the ban of the entry's user.  A ban that takes
\* effect is itself recorded in the audit log, with the bot as its actor, and
\* dispatched to on_member_ban.
ban_actor(t) ==
    /\ t.pc = "ban"
    /\ \E r \in BanOutcomes(t.entry), logged \in BOOLEAN :
           LET call == Call("ban", t.ev, t.entry, NoOne, 0, "", r)
               fresh == r = "ok" /\ t.entry \notin banned
               mine == Replace(tasks, t,
                           IF r = "ok" THEN Goto(t, "struct_log", call) ELSE Raise(t, call))
           IN  /\ tasks' = IF fresh /\ Room(tasks)
                           THEN Dispatch(mine, NewTask("ban", "audit_logs", BOT_ID, t.entry, ""))
                           ELSE mine
               /\ banned' = IF r = "ok" THEN banned \cup {t.entry} ELSE banned
               /\ audit_logs' = IF fresh THEN Record("ban", BOT_ID, logged) ELSE audit_logs
    /\ UNCHANGED <<whitelisted, timeouts>>

\* lines 102-104, 113-115 and 123-125
struct_log(t) ==
    /\ t.pc = "struct_log"
    /\ \E chan \in LogChannels :
           Only(t, log_action(t, "done", LogEntry(t.ev, t.entry, t.target, ""), chan))

\* ------------------------------------------------------------ environment
\* Someone else deletes the message, channel or role before the handler's
\* own delete reaches the platform.
other_delete(t) ==
    /\ t.pc \in {"link_delete", "mention_delete", "revert"}
    /\ ~t.gone
    /\ Only(t, [t EXCEPT !.gone = TRUE])

\* ------------------------------------------------------------ specification
Init ==
    /\ whitelisted = {OWNER_ID}
    /\ tasks = <<>>
    /\ audit_logs = [ev \in StructuralEvents |-> NoOne]
    /\ banned = {}
    /\ timeouts = [p \in Principals |-> 0]

Next ==
    \/ \E author \in Principals, content \in Bodies : on_message(author, content)
    \/ \E actor \in Humans, logged \in BOOLEAN : on_guild_channel_create(actor, logged)
    \/ \E actor \in Humans, logged \in BOOLEAN : on_guild_role_create(actor, logged)
    \/ \E actor \in Humans, user \in Humans, logged \in BOOLEAN :
           on_member_ban(actor, user, logged)
    \/ \E t \in Tasks : link_delete(t)
    \/ \E t \in Tasks : link_dm(t)
    \/ \E t \in Tasks : link_log(t)
    \/ \E t \in Tasks : mention_delete(t)
    \/ \E t \in Tasks : mention_timeout(t)
    \/ \E t \in Tasks : mention_dm(t)
    \/ \E t \in Tasks : mention_log(t)
    \/ \E t \in Tasks : process_commands(t)
    \/ \E t \in Tasks : command_ack(t)
    \/ \E t \in Tasks : command_log(t)
    \/ \E t \in Tasks : error_owner(t)
    \/ \E t \in Tasks : error_missing(t)
    \/ \E t \in Tasks : error_log(t)
    \/ \E t \in Tasks : resolve_actor(t)
    \/ \E t \in Tasks : revert(t)
    \/ \E t \in Tasks : ban_actor(t)
    \/ \E t \in Tasks : struct_log(t)
    \/ \E t \in Tasks : other_delete(t)

Spec == Init /\ [][Next]_vars

\* ------------------------------------------------------------ claims
\* The calls task t has made so far.
Calls(t) == {t.trace[k] : k \in DOMAIN t.trace}

Issued(t, op, tag) == \E c \in Calls(t) : c.op = op /\ c.tag = tag

\* Handler t takes one step and becomes t2.
Step(t, t2) == t # t2 /\ tasks' = Replace(tasks, t, t2)

\* C1: every message of an author that is no bot and that line 69 finds not
\* allow-listed, with a body holding a link, has by the end of on_message been
\* deleted, answered by a DM and logged with the first 100 characters of its
\* body; for an author line 69 finds allow-listed the link rule does nothing.
C1_LinkRuleEnforced ==
    \A t \in Tasks :
        (t.ev = "message" /\ Finished(t) /\ t.actor # BOT_ID /\ LINK_PATTERN(t.content)) =>
            /\ t.link_seen = "unlisted" =>
                   /\ Issued(t, "delete", "link")
                   /\ Issued(t, "dm", "link")
                   /\ \E c \in Calls(t) :
                          /\ c.op = "log" /\ c.tag = "link"
                          /\ c.text = Take(t.content, PREVIEW_LEN) \o "..."
            /\ t.link_seen = "listed" => \A c \in Calls(t) : c.tag # "link"

\* C2: every message whose lowercased body mentions @everyone or @here, of an
\* author line 78 finds not allow-listed, ends with the author timed out for
\* exactly 600 seconds, the message deleted, a DM and an audit entry; for an
\* author line 78 finds allow-listed the mention rule does nothing.
C2_MentionRuleEnforced ==
    \A t \in Tasks :
        (t.ev = "message" /\ Finished(t) /\ t.actor # BOT_ID /\ MASS_MENTION(t.content)) =>
            /\ t.mention_seen = "unlisted" =>
                   /\ Issued(t, "delete", "mention")
                   /\ \E c \in Calls(t) :
                          c.op = "timeout" /\ c.who = t.actor /\ c.secs = 600
                   /\ Issued(t, "dm", "mention")
                   /\ Issued(t, "log", "mention")
            /\ t.mention_seen = "listed" => \A c \in Calls(t) : c.tag # "mention"

\* The link verdict of task t was applied in full: delete, DM and audit entry.
LinkVerdictApplied(t) ==
    /\ Len(t.trace) >= 3
    /\ t.trace[1].op = "delete" /\ t.trace[1].tag = "link" /\ t.trace[1].res = "ok"
    /\ t.trace[2].op = "dm" /\ t.trace[2].tag = "link" /\ t.trace[2].res = "ok"
    /\ t.trace[3].op = "log" /\ t.trace[3].tag = "link" /\ t.trace[3].res = "ok"

\* C3: a message with a link and a mass mention, of an author both rules find
\* not allow-listed, whose link verdict was applied (so that the message is
\* already deleted), ends with the mention verdict applied after it: second
\* delete, 600 s timeout, DM and audit entry.
C3_BothVerdictsApplied ==
    \A t \in Tasks :
        (/\ t.ev = "message" /\ Finished(t)
         /\ t.link_seen = "unlisted" /\ t.mention_seen = "unlisted"
         /\ LinkVerdictApplied(t)) =>
            /\ Len(t.trace) = 7
            /\ t.trace[4].op = "delete" /\ t.trace[4].tag = "mention"
            /\ t.trace[5].op = "timeout" /\ t.trace[5].secs = 600
            /\ t.trace[6].op = "dm" /\ t.trace[6].tag = "mention"
            /\ t.trace[7].op = "log" /\ t.trace[7].tag = "mention"

\* C4: a channel-create, role-create or member-ban handler that resolved an
\* actor outside the allow-list ends with the channel or role deleted, the
\* actor banned and an audit entry; one that resolved an allow-listed actor
\* ends without any call.
C4_StructuralVerdictApplied ==
    \A t \in Tasks :
        (t.ev \in StructuralEvents /\ Finished(t)) =>
            /\ t.entry_seen = "unlisted" =>
                   /\ t.ev # "ban" => Issued(t, "delete", t.ev)
                   /\ \E c \in Calls(t) : c.op = "ban" /\ c.who = t.entry
                   /\ Issued(t, "log", t.ev)
            /\ t.entry_seen = "listed" => t.trace = <<>>

\* C5: when the audit-log query of a channel-create, role-create or
\* member-ban handler returns no entry, that step ends the handler without an
\* error and without a call (no delete, no ban, no audit entry), and leaves
\* the allow-list, the bans and the object as they were.
C5_NoEntryNoAction ==
    [][\A t \in Tasks, t2 \in Tasks' :
          (/\ t.ev \in StructuralEvents /\ t.pc = "audit_logs"
           /\ audit_logs[t.ev] = NoOne
           /\ t2.err = ""
           /\ Step(t, t2)) =>
              /\ t2.pc = "done"
              /\ t2.trace = <<>>
              /\ t2.gone = t.gone
              /\ whitelisted' = whitelisted
              /\ banned' = banned
              /\ timeouts' = timeouts]_vars

\* A handler whose query returned no entry has ended without a call, for an
\* event of an account outside the allow-list.
C5_NoEntryReached ==
    \E t \in Tasks :
        /\ t.ev \in StructuralEvents /\ t.pc = "done"
        /\ t.entry = NoOne /\ t.err = "" /\ t.trace = <<>>
        /\ t.actor \notin whitelisted

\* The member a command's argument names, as the converter resolves it.
Named(t) == MemberOf(argument(t.content), Principals \ banned)

\* The step in which task t runs the callback of command `name`.
Callback(t, t2, name) ==
    /\ t.pc = "process_commands" /\ t2.pc = "command_ack"
    /\ invoked_with(t.content) = name
    /\ Step(t, t2)

\* C6: the step that runs whitelist(p) ends with p in the allow-list; the
\* step that runs unwhitelist(p) ends with p outside it; and unwhitelist(p)
\* for a p that is not in the allow-list runs without an error and leaves the
\* allow-list as it was.
C6_WhitelistUnwhitelist ==
    [][\A t \in Tasks, t2 \in Tasks' :
          /\ Callback(t, t2, "whitelist") => Named(t) \in whitelisted'
          /\ Callback(t, t2, "unwhitelist") =>
                 /\ Named(t) \notin whitelisted'
                 /\ Named(t) \notin whitelisted => whitelisted' = whitelisted
          /\ (/\ t.pc = "process_commands"
              /\ invoked_with(t.content) = "unwhitelist"
              /\ t.actor = OWNER_ID /\ Named(t) # NoOne
              /\ Step(t, t2)) =>
                 t2.pc = "command_ack" /\ t2.err = ""]_vars

\* whitelist(p) and a following unwhitelist(p) have both run, and p is out.
C6_AddedThenRemoved ==
    \E t \in Tasks, u \in Tasks :
        /\ invoked_with(t.content) = "whitelist" /\ t.target \in Members
        /\ invoked_with(u.content) = "unwhitelist" /\ u.target = t.target
        /\ t.target \notin whitelisted

\* C7: when the owner's whitelist command for P has run, the acknowledgment
\* was sent after the allow-list gained P and an audit entry naming the owner
\* and P was logged after the acknowledgment.
C7_WhitelistAcknowledgedThenLogged ==
    \A t \in Tasks :
        (/\ t.ev = "message" /\ Finished(t) /\ t.actor = OWNER_ID
         /\ invoked_with(t.content) = "whitelist" /\ t.target # NoOne) =>
            /\ Len(t.trace) >= 2
            /\ t.trace[1].op = "send" /\ t.trace[1].tgt = t.target
            /\ t.trace[2].op = "log" /\ t.trace[2].tag = "whitelist"
            /\ t.trace[2].who = OWNER_ID /\ t.trace[2].tgt = t.target

\* A message of an account other than the owner that invokes one of the two
\* commands.
NonOwnerCommand(t) ==
    /\ t.ev = "message" /\ t.forwarded
    /\ t.actor \notin {OWNER_ID, BOT_ID}
    /\ HasPrefix(t.content, "!")
    /\ invoked_with(t.content) \in COMMANDS

\* C8: a whitelist or unwhitelist command invoked by an account other than
\* the owner never runs its callback and changes the allow-list in none of
\* its steps; once command processing has run, the "owner only" response is
\* the one call made for it, and no audit entry is written.
C8_NonOwnerRejected ==
    /\ [](\A t \in Tasks :
            NonOwnerCommand(t) =>
                /\ t.target = NoOne
                /\ \A c \in Calls(t) : c.op # "log"
                /\ t.pc \in {"process_commands", "error_owner", "done", "failed"}
                /\ Finished(t) =>
                       /\ Len(t.trace) = 1
                       /\ t.trace[1].op = "send" /\ t.trace[1].tag = "owner_only"
                       /\ t.trace[1].who = t.actor)
    /\ [][\A t \in Tasks, t2 \in Tasks' :
            (NonOwnerCommand(t) /\ Step(t, t2)) => whitelisted' = whitelisted]_vars

\* The "owner only" response to a non-owner's whitelist command was sent.
C8_OwnerOnlySent ==
    \E t \in Tasks :
        /\ NonOwnerCommand(t) /\ t.pc = "done"
        /\ invoked_with(t.content) = "whitelist"
        /\ t.trace[1].tag = "owner_only" /\ t.trace[1].res = "ok"
        /\ t.actor \notin whitelisted

\* C9: the configured owner is in the allow-list in every reachable state.
C9_OwnerAlwaysListed == OWNER_ID \in whitelisted

\* C10: when a delete, timeout or ban of a verdict fails, the handler still
\* goes on to the verdict's later actions: by the time it ends it has logged
\* the verdict.
C10_FailureDoesNotStopHandling ==
    \A t \in Tasks :
        \A k \in DOMAIN t.trace :
            (/\ Finished(t)
             /\ t.trace[k].op \in {"delete", "timeout", "ban"}
             /\ t.trace[k].res # "ok") =>
                \E j \in DOMAIN t.trace :
                    j > k /\ t.trace[j].op = "log" /\ t.trace[j].tag = t.trace[k].tag

\* C11: every message of an author that is no bot has, by the end of its
\* handling, been handed to command processing (line 92), whichever of the
\* two rules fired for it.
C11_EveryMessageForwarded ==
    \A t \in Tasks :
        (t.ev = "message" /\ t.actor # BOT_ID /\ Finished(t)) => t.forwarded

\* The calls of task t that carry tag `tag`, in the order they were made.
Tagged(t, tag) == SelectSeq(t.trace, LAMBDA c : c.tag = tag)

\* The operations of a sequence of calls.
Ops(calls) == [k \in DOMAIN calls |-> calls[k].op]

IsPrefix(s, full) == Len(s) <= Len(full) /\ s = SubSeq(full, 1, Len(s))

\* A call that returned to the handler: it succeeded, or send_dm swallowed
\* its Forbidden, or log_action found no channel.
Returned(c) ==
    \/ c.res = "ok"
    \/ c.op = "dm" /\ c.res = "Forbidden"
    \/ c.op = "log" /\ c.res = "None"

\* The tags of the calls a verdict makes.
VerdictTags == {"link", "mention"} \cup StructuralEvents

\* C12: the calls of one verdict are made one after the other, each one only
\* after the call before it returned: link verdict delete, DM, log; mention
\* verdict delete, timeout, DM, log, all after the link verdict's calls;
\* structural verdict delete (channel, role), ban, log, and never a DM.
C12_ActionOrder ==
    \A t \in Tasks :
        /\ \A k \in 2..Len(t.trace) :
               t.trace[k].tag \in VerdictTags => Returned(t.trace[k - 1])
        /\ t.ev = "message" =>
               /\ IsPrefix(Ops(Tagged(t, "link")), <<"delete", "dm", "log">>)
               /\ IsPrefix(Ops(Tagged(t, "mention")),
                           <<"delete", "timeout", "dm", "log">>)
               /\ \A i, j \in DOMAIN t.trace :
                      (t.trace[i].tag = "link" /\ t.trace[j].tag = "mention") => i < j
        /\ t.ev \in {"channel", "role"} =>
               \/ IsPrefix(Ops(t.trace), <<"delete", "ban", "log">>)
               \/ Ops(t.trace) = <<"audit_logs">>
        /\ t.ev = "ban" =>
               \/ IsPrefix(Ops(t.trace), <<"ban", "log">>)
               \/ Ops(t.trace) = <<"audit_logs">>
        /\ t.ev \in StructuralEvents => \A c \in Calls(t) : c.op # "dm"

\* A mention verdict and a structural verdict have both been carried out to
\* their last call.
C12_VerdictsCarriedOut ==
    \E t \in Tasks, u \in Tasks :
        /\ t.ev = "message" /\ t.pc = "done"
        /\ Ops(t.trace) = <<"delete", "timeout", "dm", "log">>
        /\ u.ev = "channel" /\ u.pc = "done"
        /\ Ops(u.trace) = <<"delete", "ban", "log">>

\* C13: the two rules of one message never disagree about the author: it is
\* never the case that one finds the author outside the allow-list and the
\* other finds the author in it.
C13_SameSnapshot ==
    \A t \in Tasks :
        /\ ~(t.link_seen = "unlisted" /\ t.mention_seen = "listed")
        /\ ~(t.link_seen = "listed" /\ t.mention_seen = "unlisted")

\* The first k operations of task t.
OpsUpTo(t, k) == Ops(SubSeq(t.trace, 1, k))

\* C14: a log_action that finds no log channel (get_channel() gives None)
\* sends nothing and raises nothing: the actions of the verdict or command
\* before it were made, the handler does not fail at it (the one handler that
\* ends with an error after it is on_command_error, whose `raise error`
\* follows the log), the structural and command handlers end normally, and
\* after a link verdict the mention check is still made.
C14_NoLogChannelIsSilent ==
    \A t \in Tasks :
        \A k \in DOMAIN t.trace :
            (t.trace[k].op = "log" /\ t.trace[k].res = "None") =>
                LET tag == t.trace[k].tag
                IN  /\ (k = Len(t.trace) /\ tag # "error") =>
                           t.pc # "failed" /\ t.err = ""
                    /\ tag = "link" =>
                           /\ OpsUpTo(t, k) = <<"delete", "dm", "log">>
                           /\ t.content \in MentionBodies => t.mention_seen # ""
                    /\ tag = "mention" =>
                           SubSeq(OpsUpTo(t, k), k - 3, k) =
                               <<"delete", "timeout", "dm", "log">>
                    /\ tag \in {"channel", "role"} =>
                           OpsUpTo(t, k) = <<"delete", "ban", "log">> /\ t.pc = "done"
                    /\ tag = "ban" =>
                           OpsUpTo(t, k) = <<"ban", "log">> /\ t.pc = "done"
                    /\ tag \in COMMANDS =>
                           /\ OpsUpTo(t, k) = <<"send", "log">>
                           /\ t.trace[1].res = "ok" /\ t.pc = "done"

\* A channel handler deleted the channel and banned the actor, found no log
\* channel and ended normally; a whitelist command did the same after its
\* acknowledgment.
C14_NoLogChannelReached ==
    \E t \in Tasks, u \in Tasks :
        /\ t.ev = "channel" /\ t.pc = "done" /\ Len(t.trace) = 3
        /\ t.trace[1].res = "ok" /\ t.trace[2].res = "ok"
        /\ t.trace[3].op = "log" /\ t.trace[3].res = "None"
        /\ invoked_with(u.content) = "whitelist" /\ u.pc = "done" /\ Len(u.trace) = 2
        /\ u.trace[2].op = "log" /\ u.trace[2].res = "None"
        /\ u.target \in whitelisted

\* C15: a DM that is not delivered, whatever the failure, does not end the
\* handler: the handler goes on, and the call it makes next is the audit
\* entry of the same verdict (not an entry about the failed DM).
C15_DMFailureNotFatal ==
    \A t \in Tasks :
        \A k \in DOMAIN t.trace :
            (t.trace[k].op = "dm" /\ t.trace[k].res # "ok") =>
                /\ ~(k = Len(t.trace) /\ t.pc = "failed")
                /\ k < Len(t.trace) =>
                       /\ t.trace[k + 1].op = "log"
                       /\ t.trace[k + 1].tag = t.trace[k].tag
                       /\ t.trace[k + 1].text \in
                              {"", Take(t.content, PREVIEW_LEN) \o "..."}

\* The step in which command processing of task t ends in on_command_error
\* (or, for an unknown command, in nothing).
Rejected(t, t2) ==
    /\ t.pc = "process_commands" /\ t2.pc # "command_ack"
    /\ Step(t, t2)

\* The last call of task t2 is new, and is a call of `op` tagged `tag`.
Made(t, t2, op, tag) ==
    /\ Len(t2.trace) = Len(t.trace) + 1
    /\ SubSeq(t2.trace, 1, Len(t.trace)) = t.trace
    /\ t2.trace[Len(t2.trace)].op = op
    /\ t2.trace[Len(t2.trace)].tag = tag

\* C16: on_command_error treats an unknown command by doing nothing and
\* ending without an error; a missing argument by the "missing arguments"
\* response alone; an invoker that is not the owner by the "owner only"
\* response alone; any other error by one audit entry with the command's
\* name and the error's text, after which the invocation ends with the error.
\* None of these steps changes the allow-list or another handler.
C16_CommandErrorsClassified ==
    /\ [](\A t \in Tasks :
            \A k \in DOMAIN t.trace :
                /\ t.trace[k].tag \in {"missing_arguments", "owner_only"} =>
                       Len(t.trace) = 1
                /\ t.trace[k].tag = "error" =>
                       /\ k = Len(t.trace) /\ Finished(t)
                       /\ \A j \in DOMAIN t.trace : t.trace[j].tag = "error" => j = k)
    /\ [][\A t \in Tasks, t2 \in Tasks' :
            LET name == invoked_with(t.content)
                arg == argument(t.content)
            IN  /\ Rejected(t, t2) =>
                       /\ whitelisted' = whitelisted
                       /\ t2.trace = t.trace
                       /\ name \notin COMMANDS => t2.pc = "done"
                       /\ (name \in COMMANDS /\ t.actor # OWNER_ID) =>
                              t2.pc = "error_owner"
                       /\ (name \in COMMANDS /\ t.actor = OWNER_ID /\ arg = "") =>
                              t2.pc = "error_missing"
                       /\ (name \in COMMANDS /\ t.actor = OWNER_ID /\ arg # "") =>
                              t2.pc = "error_log"
                /\ (t.pc = "error_missing" /\ Step(t, t2)) =>
                       /\ Made(t, t2, "send", "missing_arguments")
                       /\ Finished(t2) /\ whitelisted' = whitelisted
                /\ (t.pc = "error_owner" /\ Step(t, t2)) =>
                       /\ Made(t, t2, "send", "owner_only")
                       /\ Finished(t2) /\ whitelisted' = whitelisted
                /\ (t.pc = "error_log" /\ Step(t, t2)) =>
                       /\ Made(t, t2, "log", "error")
                       /\ t2.trace[Len(t2.trace)].text = name \o ": " \o t.err
                       /\ t2.pc = "failed" /\ whitelisted' = whitelisted
                /\ (t.pc \in {"command_ack", "command_log"} /\ Step(t, t2)
                    /\ t2.err # "") =>
                       t2.pc = "error_log" /\ whitelisted' = whitelisted]_vars

\* Each of the four classes has happened: a converter error was logged and
\* propagated, or an unknown command was ignored, next to a "missing
\* arguments" or an "owner only" response.
C16_ClassesReached ==
    \E t \in Tasks, u \in Tasks :
        /\ \/ /\ t.err = "MemberNotFound" /\ t.pc = "failed"
              /\ t.trace[1].tag = "error" /\ t.trace[1].res = "ok"
           \/ t.err = "CommandNotFound" /\ t.pc = "done" /\ t.trace = <<>>
        /\ u.pc = "done" /\ Len(u.trace) = 1
        /\ u.trace[1].tag \in {"missing_arguments", "owner_only"}

\* C17: the allow-list changes only in the step that runs the callback of a
\* whitelist or unwhitelist command of the owner; no step of a message,
\* channel-create, role-create or member-ban handler and no rejected command
\* changes it.
C17_OnlyOwnerCommandsChangeAllowList ==
    [][whitelisted' # whitelisted =>
          \E t \in Tasks, t2 \in Tasks' :
              /\ t.actor = OWNER_ID
              /\ Callback(t, t2, "whitelist") \/ Callback(t, t2, "unwhitelist")]_vars

\* The allow-list was changed by the owner's command while a structural
\* event of the member it names was handled to its end.
C17_ChangedNextToEvent ==
    \E t \in Tasks, u \in Tasks :
        /\ t.actor = OWNER_ID /\ invoked_with(t.content) = "whitelist"
        /\ t.target \in whitelisted \ {OWNER_ID}
        /\ u.ev \in StructuralEvents /\ u.actor = t.target /\ Finished(u)

\* C18: the bot makes no ban call on account of a ban of its own: a
\* member-ban handler whose audit entry names the bot makes no ban call, and
\* no handler makes a ban call whose target is the bot's own account.
C18_NoBanFeedback ==
    \A t \in Tasks :
        \A c \in Calls(t) :
            c.op = "ban" =>
                /\ c.who # BOT_ID
                /\ ~(t.ev = "ban" /\ t.entry = BOT_ID)

\* C19: the verdict of a structural event is decided on the principal who
\* performed it: a channel or role is deleted only on its creator's verdict,
\* it is left in place as an allow-listed principal's only when its creator
\* is that principal, and the ban call names the performer of the event.
C19_PerformerSanctioned ==
    \A t \in Tasks :
        t.ev \in StructuralEvents =>
            /\ \A c \in Calls(t) : c.op = "ban" => c.who = t.actor
            /\ t.ev \in {"channel", "role"} =>
                   /\ Issued(t, "delete", t.ev) => t.entry = t.actor
                   /\ (t.pc = "done" /\ t.entry_seen = "listed") => t.entry = t.actor

\* C20: a handler issues its timeout, or its ban, only against a principal
\* who is outside the allow-list at that moment, the moment being the end of
\* the step in which the call before it returned.
C20_NoSanctionOfListed ==
    [][\A t \in Tasks, t2 \in Tasks' :
          /\ (t.pc # "mention_timeout" /\ t2.pc = "mention_timeout" /\ Step(t, t2)) =>
                 t2.actor \notin whitelisted'
          /\ (t.pc # "ban" /\ t2.pc = "ban" /\ Step(t, t2)) =>
                 t2.entry \notin whitelisted']_vars

====
